---- MODULE Spec2Model ----
(***************************************************************************)
(* Model of inventory_system.py: an insertion-ordered mapping from item    *)
(* name to quantity (a Python dict), the operations on it, and its JSON    *)
(* persistence.                                                            *)
(*                                                                         *)
(* A Python dict is a sequence of entries [item, qty] in insertion order.  *)
(* An argument is a Python value [type, s, n]: its type name, its text (s) *)
(* when it is a str and its number (n) when it is an int or a bool.        *)
(* A file is [exists, text] with text a sequence of JSON tokens.           *)
(***************************************************************************)
EXTENDS Integers, Sequences, FiniteSets, TLC

VARIABLES
    stock,   \* the caller's inventory dict
    logs,    \* the caller's log list (handed to add_item, or not)
    file,    \* the inventory file on disk
    last,    \* the last call: its arguments, what it printed, raised, returned
    added,   \* per item: the quantities added since the item was last absent
    pc       \* position in main()

vars == <<stock, logs, file, last, added, pc>>

----------------------------------------------------------------------------
(* Bounds *)

MaxQty == 1        \* integer arguments range over -MaxQty..MaxQty
MaxStored == 2     \* calls that would store a quantity beyond +-MaxStored are not made
MaxLogs == 1       \* the caller's log list is handed over while shorter than this
MaxRun == 2        \* the count of adds in a run saturates here

TextItems == {"apple", "banana"}

----------------------------------------------------------------------------
(* Python values *)

PyStr(s) == [type |-> "str", s |-> s, n |-> 0]
PyInt(n) == [type |-> "int", s |-> "", n |-> n]
PyTrue == [type |-> "bool", s |-> "", n |-> 1]
PyFloat == [type |-> "float", s |-> "2.5", n |-> 0]
PyNone == [type |-> "NoneType", s |-> "", n |-> 0]

\* isinstance(v, str)
IsStr(v) == v.type = "str"

\* isinstance(v, int): bool is a subclass of int
IsInt(v) == v.type \in {"int", "bool"}

----------------------------------------------------------------------------
(* dict operations *)

Keys(d) == {d[i].item : i \in 1..Len(d)}

IndexOf(d, item) == CHOOSE i \in 1..Len(d) : d[i].item = item

\* d.get(item, default)
DictGet(d, item, default) ==
    IF item \in Keys(d) THEN d[IndexOf(d, item)].qty ELSE default

\* d[item] = qty: in place when the key exists, else appended
DictSet(d, item, qty) ==
    IF item \in Keys(d)
    THEN [d EXCEPT ![IndexOf(d, item)].qty = qty]
    ELSE Append(d, [item |-> item, qty |-> qty])

\* del d[item]
DictDel(d, item) ==
    LET k == IndexOf(d, item)
    IN [i \in 1..(Len(d) - 1) |-> IF i < k THEN d[i] ELSE d[i + 1]]

----------------------------------------------------------------------------
(* The inventory operations.  Each returns the dict (and log list) as the  *)
(* call leaves them, what it printed and whether it raised.                *)

\* add_item storing qty in place of the sum
AddItemOverwrite(d, item, qty, lg, useLogs) ==
    IF ~IsStr(item) \/ ~IsInt(qty)
    THEN [stock |-> d, logs |-> lg, out |-> "Invalid item or quantity", raised |-> FALSE]
    ELSE [stock |-> DictSet(d, item.s, qty.n),
          logs |-> IF useLogs THEN Append(lg, [qty |-> qty, item |-> item.s]) ELSE lg,
          out |-> "", raised |-> FALSE]

\* add_item returning early on a quantity of 0
AddItemSkipsZero(d, item, qty, lg, useLogs) ==
    IF ~IsStr(item) \/ ~IsInt(qty)
    THEN [stock |-> d, logs |-> lg, out |-> "Invalid item or quantity", raised |-> FALSE]
    ELSE IF qty.n = 0
    THEN [stock |-> d, logs |-> lg, out |-> "", raised |-> FALSE]
    ELSE [stock |-> DictSet(d, item.s, DictGet(d, item.s, 0) + qty.n),
          logs |-> IF useLogs THEN Append(lg, [qty |-> qty, item |-> item.s]) ELSE lg,
          out |-> "", raised |-> FALSE]

\* add_item without the isinstance check
AddItemNoCheck(d, item, qty, lg, useLogs) ==
    [stock |-> DictSet(d, item.s, DictGet(d, item.s, 0) + qty.n),
     logs |-> IF useLogs THEN Append(lg, [qty |-> qty, item |-> item.s]) ELSE lg,
     out |-> "", raised |-> FALSE]

\* add_item(stock, item, qty, logs): useLogs is "logs is not None".  The log
\* record keeps the quantity and the item as formatted; its timestamp is not modelled.
add_item(d, item, qty, lg, useLogs) ==
    IF ~IsStr(item) \/ ~IsInt(qty)
    THEN [stock |-> d, logs |-> lg, out |-> "Invalid item or quantity", raised |-> FALSE]
    ELSE [stock |-> DictSet(d, item.s, DictGet(d, item.s, 0) + qty.n),
          logs |-> IF useLogs THEN Append(lg, [qty |-> qty, item |-> item.s]) ELSE lg,
          out |-> "", raised |-> FALSE]

\* remove_item with += for -=
RemoveItemAdds(d, item, qty) ==
    IF ~IsStr(item) \/ ~IsInt(qty)
    THEN [stock |-> d, out |-> "Invalid item or quantity", raised |-> FALSE]
    ELSE IF item.s \notin Keys(d)
    THEN [stock |-> d, out |-> "Warning: does not exist", raised |-> FALSE]
    ELSE LET d1 == DictSet(d, item.s, DictGet(d, item.s, 0) + qty.n)
         IN [stock |-> IF DictGet(d1, item.s, 0) <= 0 THEN DictDel(d1, item.s) ELSE d1,
             out |-> "", raised |-> FALSE]

\* remove_item deleting below 0 only
RemoveItemKeepsZero(d, item, qty) ==
    IF ~IsStr(item) \/ ~IsInt(qty)
    THEN [stock |-> d, out |-> "Invalid item or quantity", raised |-> FALSE]
    ELSE IF item.s \notin Keys(d)
    THEN [stock |-> d, out |-> "Warning: does not exist", raised |-> FALSE]
    ELSE LET d1 == DictSet(d, item.s, DictGet(d, item.s, 0) - qty.n)
         IN [stock |-> IF DictGet(d1, item.s, 0) < 0 THEN DictDel(d1, item.s) ELSE d1,
             out |-> "", raised |-> FALSE]

\* remove_item reading stock.get(item, 0) in place of stock[item]
RemoveItemDefaultGet(d, item, qty) ==
    IF ~IsStr(item) \/ ~IsInt(qty)
    THEN [stock |-> d, out |-> "Invalid item or quantity", raised |-> FALSE]
    ELSE LET d1 == DictSet(d, item.s, DictGet(d, item.s, 0) - qty.n)
         IN [stock |-> IF DictGet(d1, item.s, 0) <= 0 THEN DictDel(d1, item.s) ELSE d1,
             out |-> IF item.s \in Keys(d) THEN "" ELSE "Warning: does not exist",
             raised |-> FALSE]

\* remove_item(stock, item, qty): stock[item] -= qty reads stock[item] first, so
\* an absent item raises KeyError before anything is written.
remove_item(d, item, qty) ==
    IF ~IsStr(item) \/ ~IsInt(qty)
    THEN [stock |-> d, out |-> "Invalid item or quantity", raised |-> FALSE]
    ELSE IF item.s \notin Keys(d)
    THEN [stock |-> d, out |-> "Warning: does not exist", raised |-> FALSE]
    ELSE LET d1 == DictSet(d, item.s, DictGet(d, item.s, 0) - qty.n)
         IN [stock |-> IF DictGet(d1, item.s, 0) <= 0 THEN DictDel(d1, item.s) ELSE d1,
             out |-> "", raised |-> FALSE]

\* get_qty(stock, item)
get_qty(d, item) == DictGet(d, item, 0)

RECURSIVE LowFrom(_, _, _)
LowFrom(d, threshold, i) ==
    IF i > Len(d) THEN <<>>
    ELSE IF d[i].qty < threshold
    THEN <<d[i].item>> \o LowFrom(d, threshold, i + 1)
    ELSE LowFrom(d, threshold, i + 1)

\* check_low_items with <= for <
RECURSIVE LowFromInclusive(_, _, _)
LowFromInclusive(d, threshold, i) ==
    IF i > Len(d) THEN <<>>
    ELSE IF d[i].qty <= threshold
    THEN <<d[i].item>> \o LowFromInclusive(d, threshold, i + 1)
    ELSE LowFromInclusive(d, threshold, i + 1)

CheckLowInclusive(d, threshold) == LowFromInclusive(d, threshold, 1)

\* check_low_items(stock, threshold): the comprehension over stock.items()
check_low_items(d, threshold) == LowFrom(d, threshold, 1)

DefaultThreshold == 5

\* print_data(stock): the lines between the header and the footer
print_data(d) == [i \in 1..Len(d) |-> [item |-> d[i].item, qty |-> d[i].qty]]

----------------------------------------------------------------------------
(* JSON.  A text is a sequence of tokens; the whitespace json.dump writes  *)
(* for indent=4 separates tokens and is skipped by the parser.  The model  *)
(* holds objects from text to integer, and texts that are not JSON.        *)

Tok(t) == [t |-> t, s |-> "", n |-> 0]
StrTok(s) == [t |-> "str", s |-> s, n |-> 0]
NumTok(n) == [t |-> "num", s |-> "", n |-> n]

RECURSIVE DumpMembers(_, _)
DumpMembers(d, i) ==
    IF i > Len(d) THEN <<>>
    ELSE (IF i > 1 THEN <<Tok(",")>> ELSE <<>>)
         \o <<StrTok(d[i].item), Tok(":"), NumTok(d[i].qty)>>
         \o DumpMembers(d, i + 1)

\* json.dump(stock, f, indent=4) for a dict from str to int
json_dump(d) == <<Tok("{")>> \o DumpMembers(d, 1) \o <<Tok("}")>>

Invalid == [ok |-> FALSE, data |-> <<>>]

RECURSIVE ParseMembers(_, _, _)
ParseMembers(toks, i, acc) ==
    IF i + 3 > Len(toks) THEN Invalid
    ELSE IF toks[i].t = "str" /\ toks[i + 1].t = ":" /\ toks[i + 2].t = "num"
    THEN LET acc2 == DictSet(acc, toks[i].s, toks[i + 2].n)
         IN IF toks[i + 3].t = "}"
            THEN IF i + 3 = Len(toks) THEN [ok |-> TRUE, data |-> acc2] ELSE Invalid
            ELSE IF toks[i + 3].t = ","
            THEN ParseMembers(toks, i + 4, acc2)
            ELSE Invalid
    ELSE Invalid

\* json.load(f): ok is FALSE where it raises JSONDecodeError.  A repeated key
\* keeps its first position and its last value.
json_load(toks) ==
    IF Len(toks) < 2 \/ toks[1].t # "{" THEN Invalid
    ELSE IF toks[2].t = "}"
    THEN IF Len(toks) = 2 THEN [ok |-> TRUE, data |-> <<>>] ELSE Invalid
    ELSE ParseMembers(toks, 2, <<>>)

Missing == [exists |-> FALSE, text |-> <<>>]
TextFile(toks) == [exists |-> TRUE, text |-> toks]

\* load_data without the JSONDecodeError handler
LoadDataNoDecodeHandler(f, fault) ==
    IF ~f.exists
    THEN [data |-> <<>>, out |-> "No existing inventory file found", raised |-> FALSE]
    ELSE IF fault = "OSError" THEN [data |-> <<>>, out |-> "", raised |-> TRUE]
    ELSE IF ~json_load(f.text).ok
    THEN [data |-> <<>>, out |-> "", raised |-> TRUE]
    ELSE [data |-> json_load(f.text).data, out |-> "Loaded inventory data", raised |-> FALSE]

\* load_data(file).  A missing file raises FileNotFoundError, which is handled.
\* fault is what the environment does to the read of an existing file: "OSError"
\* is a failure (permission denied, say) that no handler catches.
load_data(f, fault) ==
    IF ~f.exists
    THEN [data |-> <<>>, out |-> "No existing inventory file found", raised |-> FALSE]
    ELSE IF fault = "OSError" THEN [data |-> <<>>, out |-> "", raised |-> TRUE]
    ELSE IF ~json_load(f.text).ok
    THEN [data |-> <<>>, out |-> "Error reading JSON file", raised |-> FALSE]
    ELSE [data |-> json_load(f.text).data, out |-> "Loaded inventory data", raised |-> FALSE]

\* save_data leaving out the entries whose quantity is 0
SaveDataDropsZero(d, f, fault, k) ==
    IF fault = "open"
    THEN [file |-> f, out |-> "Error saving inventory data", raised |-> FALSE]
    ELSE IF fault = "write"
    THEN [file |-> TextFile(SubSeq(json_dump(d), 1, k)),
          out |-> "Error saving inventory data", raised |-> FALSE]
    ELSE [file |-> TextFile(json_dump(SelectSeq(d, LAMBDA e : e.qty # 0))),
          out |-> "Inventory data saved", raised |-> FALSE]

\* save_data(stock, file).  fault is what the environment does: "open" fails
\* open(file, "w") and leaves the file alone; "write" fails after the file was
\* truncated and k tokens were written; both are OSError, reported and absorbed.
save_data(d, f, fault, k) ==
    IF fault = "open"
    THEN [file |-> f, out |-> "Error saving inventory data", raised |-> FALSE]
    ELSE IF fault = "write"
    THEN [file |-> TextFile(SubSeq(json_dump(d), 1, k)),
          out |-> "Error saving inventory data", raised |-> FALSE]
    ELSE [file |-> TextFile(json_dump(d)),
          out |-> "Inventory data saved", raised |-> FALSE]

----------------------------------------------------------------------------
(* The arguments the callers draw from *)

Quantities == (-MaxQty)..MaxQty
TextArgs == {PyStr(i) : i \in TextItems}
IntArgs == {PyInt(n) : n \in Quantities} \cup {PyTrue}
NonText == {PyInt(7), PyNone}
NonInt == {PyFloat, PyStr("3")}
ItemArgs == TextArgs \cup NonText
QtyArgs == IntArgs \cup NonInt
Thresholds == ((-MaxStored)..(MaxStored + 1)) \cup {DefaultThreshold}

InBounds(d) == \A i \in 1..Len(d) : d[i].qty \in (-MaxStored)..MaxStored

NoCall ==
    [op |-> "", item |-> PyNone, qty |-> PyNone, useLogs |-> FALSE, threshold |-> 0,
     fault |-> "", out |-> "", raised |-> FALSE, ret_qty |-> 0, ret_items |-> <<>>,
     report |-> <<>>]

NoRun == [ok |-> TRUE, n |-> 0, sum |-> 0]

----------------------------------------------------------------------------
(* Calls.  Each is one whole call of the function on the caller's state.   *)

AddCall(item, qty, useLogs) ==
    LET r == add_item(stock, item, qty, logs, useLogs)
    IN /\ stock' = r.stock
       /\ logs' = r.logs
       /\ last' = [NoCall EXCEPT !.op = "add_item", !.item = item, !.qty = qty,
                                 !.useLogs = useLogs, !.out = r.out, !.raised = r.raised]

RemoveCall(item, qty) ==
    LET r == remove_item(stock, item, qty)
    IN /\ stock' = r.stock
       /\ last' = [NoCall EXCEPT !.op = "remove_item", !.item = item, !.qty = qty,
                                 !.out = r.out, !.raised = r.raised]

GetQtyCall(item) ==
    /\ last' = [NoCall EXCEPT !.op = "get_qty", !.item = PyStr(item),
                              !.ret_qty = get_qty(stock, item)]
    /\ UNCHANGED stock

CheckLowCall(threshold) ==
    /\ last' = [NoCall EXCEPT !.op = "check_low_items", !.threshold = threshold,
                              !.ret_items = check_low_items(stock, threshold)]
    /\ UNCHANGED stock

\* the caller binds what load_data returns to its inventory (as main does);
\* when load_data raises, nothing is bound
LoadCall(fault) ==
    LET r == load_data(file, fault)
    IN /\ stock' = IF r.raised THEN stock ELSE r.data
       /\ last' = [NoCall EXCEPT !.op = "load_data", !.fault = fault,
                                 !.out = r.out, !.raised = r.raised]
       /\ UNCHANGED file

SaveCall(fault, k) ==
    LET r == save_data(stock, file, fault, k)
    IN /\ file' = r.file
       /\ last' = [NoCall EXCEPT !.op = "save_data", !.fault = fault,
                                 !.out = r.out, !.raised = r.raised]
       /\ UNCHANGED stock

SaveFaults == {"none", "open", "write"}
LoadFaults == {"none", "OSError"}

\* how many tokens a failing write can have got out
WrittenBefore(fault) == IF fault = "write" THEN 0..Len(json_dump(stock)) ELSE {0}

----------------------------------------------------------------------------
(* Spec: a caller making any add_item, remove_item, get_qty and            *)
(* check_low_items calls on its inventory, starting empty, with no log     *)
(* list (as main calls them).                                              *)

Init ==
    /\ stock = <<>>
    /\ logs = <<>>
    /\ file = Missing
    /\ last = NoCall
    /\ added = [i \in TextItems |-> NoRun]
    /\ pc = "idle"

AddItem ==
    \E item \in ItemArgs, qty \in QtyArgs :
        /\ AddCall(item, qty, FALSE)
        /\ InBounds(stock')
        /\ UNCHANGED <<file, added, pc>>

RemoveItem ==
    \E item \in ItemArgs, qty \in QtyArgs :
        /\ RemoveCall(item, qty)
        /\ InBounds(stock')
        /\ UNCHANGED <<logs, file, added, pc>>

GetQty ==
    \E item \in TextItems :
        /\ GetQtyCall(item)
        /\ UNCHANGED <<logs, file, added, pc>>

CheckLowItems ==
    \E threshold \in Thresholds :
        /\ CheckLowCall(threshold)
        /\ UNCHANGED <<logs, file, added, pc>>

Next == AddItem \/ RemoveItem \/ GetQty \/ CheckLowItems

Spec == Init /\ [][Next]_vars

----------------------------------------------------------------------------
(* SpecLogs: a caller that keeps a log list and hands it to add_item, or   *)
(* not, on one item.                                                       *)

LogItemArgs == {PyStr("apple")} \cup NonText

LoggedAdd ==
    \E item \in LogItemArgs, qty \in QtyArgs, useLogs \in BOOLEAN :
        /\ AddCall(item, qty, useLogs)
        /\ InBounds(stock')
        /\ Len(logs') <= MaxLogs
        /\ UNCHANGED <<file, added, pc>>

LoggedRemove ==
    \E item \in LogItemArgs, qty \in QtyArgs :
        /\ RemoveCall(item, qty)
        /\ InBounds(stock')
        /\ UNCHANGED <<logs, file, added, pc>>

NextLogs == LoggedAdd \/ LoggedRemove

SpecLogs == Init /\ [][NextLogs]_vars

----------------------------------------------------------------------------
(* SpecAdds: adds and removes with text items and integer quantities, with *)
(* the record of each item's run of adds: ok while nothing but add_item    *)
(* has touched the item since it was absent, n the adds counted (up to     *)
(* MaxRun) and sum the quantities added.                                   *)

Min(a, b) == IF a < b THEN a ELSE b

RunAdd ==
    \E item \in TextArgs, qty \in IntArgs :
        /\ AddCall(item, qty, FALSE)
        /\ InBounds(stock')
        /\ added' = [added EXCEPT ![item.s] =
                        IF @.ok
                        THEN [ok |-> TRUE, n |-> Min(@.n + 1, MaxRun), sum |-> @.sum + qty.n]
                        ELSE @]
        /\ UNCHANGED <<file, pc>>

RunRemove ==
    \E item \in TextArgs, qty \in IntArgs :
        /\ RemoveCall(item, qty)
        /\ InBounds(stock')
        /\ added' = [added EXCEPT ![item.s] =
                        IF item.s \in Keys(stock')
                        THEN [ok |-> FALSE, n |-> 0, sum |-> 0]
                        ELSE NoRun]
        /\ UNCHANGED <<logs, file, pc>>

NextAdds == RunAdd \/ RunRemove

SpecAdds == Init /\ [][NextAdds]_vars

----------------------------------------------------------------------------
(* SpecPersist: adds and removes with text items and integer quantities,   *)
(* and saves and loads of the inventory, over a file that starts missing,  *)
(* malformed or holding an object.                                         *)

Junk == Tok("junk")

InitTexts ==
    { <<>>,
      <<Junk, Junk, Junk>>,
      <<Tok("{"), StrTok("apple"), Tok(":"), NumTok(1)>>,
      <<Tok("{"), Tok("}"), Tok("}")>>,
      json_dump(<<>>),
      json_dump(<<[item |-> "banana", qty |-> 1]>>),
      json_dump(<<[item |-> "banana", qty |-> 0], [item |-> "apple", qty |-> -1]>>),
      <<Tok("{"), StrTok("apple"), Tok(":"), NumTok(1), Tok(","),
        StrTok("apple"), Tok(":"), NumTok(2), Tok("}")>> }

InitFiles == {Missing} \cup {TextFile(t) : t \in InitTexts}

InitPersist ==
    /\ stock = <<>>
    /\ logs = <<>>
    /\ file \in InitFiles
    /\ last = NoCall
    /\ added = [i \in TextItems |-> NoRun]
    /\ pc = "idle"

\* In this specification the record of an add or a remove keeps the call's
\* name and output, and stored quantities stay within +-MaxQty.
Small(d) == \A i \in 1..Len(d) : d[i].qty \in Quantities

StoreAdd ==
    \E item \in TextArgs, qty \in IntArgs :
        LET r == add_item(stock, item, qty, logs, FALSE)
        IN /\ Small(r.stock)
           /\ stock' = r.stock
           /\ last' = [NoCall EXCEPT !.op = "add_item", !.out = r.out, !.raised = r.raised]
           /\ UNCHANGED <<logs, file, added, pc>>

StoreRemove ==
    \E item \in TextArgs, qty \in IntArgs :
        LET r == remove_item(stock, item, qty)
        IN /\ Small(r.stock)
           /\ stock' = r.stock
           /\ last' = [NoCall EXCEPT !.op = "remove_item", !.out = r.out, !.raised = r.raised]
           /\ UNCHANGED <<logs, file, added, pc>>

SaveData ==
    \E fault \in SaveFaults :
        \E k \in WrittenBefore(fault) :
            /\ SaveCall(fault, k)
            /\ UNCHANGED <<logs, added, pc>>

LoadData ==
    \E fault \in LoadFaults :
        /\ LoadCall(fault)
        /\ UNCHANGED <<logs, added, pc>>

NextPersist == StoreAdd \/ StoreRemove \/ SaveData \/ LoadData

SpecPersist == InitPersist /\ [][NextPersist]_vars

----------------------------------------------------------------------------
(* SpecMain: main(), one statement a step, over any initial file.          *)

MainTexts ==
    InitTexts \cup
    { json_dump(<<[item |-> "pear", qty |-> 4]>>),
      json_dump(<<[item |-> "orange", qty |-> 6], [item |-> "apple", qty |-> 1]>>),
      json_dump(<<[item |-> "kiwi", qty |-> 3]>>) }

MainFiles == {Missing} \cup {TextFile(t) : t \in MainTexts}

InitMain ==
    /\ stock = <<>>
    /\ logs = <<>>
    /\ file \in MainFiles
    /\ last = NoCall
    /\ added = [i \in TextItems |-> NoRun]
    /\ pc = "load"

MainLoad ==
    /\ pc = "load"
    /\ \E fault \in LoadFaults : LoadCall(fault)
    /\ pc' = IF last'.raised THEN "crashed" ELSE "add_apple"
    /\ UNCHANGED <<logs, added>>

MainAddApple ==
    /\ pc = "add_apple"
    /\ AddCall(PyStr("apple"), PyInt(10), FALSE)
    /\ pc' = "add_banana"
    /\ UNCHANGED <<file, added>>

MainAddBanana ==
    /\ pc = "add_banana"
    /\ AddCall(PyStr("banana"), PyInt(2), FALSE)
    /\ pc' = "add_orange"
    /\ UNCHANGED <<file, added>>

MainAddOrange ==
    /\ pc = "add_orange"
    /\ AddCall(PyStr("orange"), PyInt(0), FALSE)
    /\ pc' = "remove_apple"
    /\ UNCHANGED <<file, added>>

MainRemoveApple ==
    /\ pc = "remove_apple"
    /\ RemoveCall(PyStr("apple"), PyInt(3))
    /\ pc' = "remove_pear"
    /\ UNCHANGED <<logs, file, added>>

MainRemovePear ==
    /\ pc = "remove_pear"
    /\ RemoveCall(PyStr("pear"), PyInt(1))
    /\ pc' = "get_qty"
    /\ UNCHANGED <<logs, file, added>>

MainGetQty ==
    /\ pc = "get_qty"
    /\ GetQtyCall("apple")
    /\ pc' = "check_low"
    /\ UNCHANGED <<logs, file, added>>

MainCheckLow ==
    /\ pc = "check_low"
    /\ CheckLowCall(DefaultThreshold)
    /\ pc' = "save"
    /\ UNCHANGED <<logs, file, added>>

MainSave ==
    /\ pc = "save"
    /\ \E fault \in SaveFaults : \E k \in WrittenBefore(fault) : SaveCall(fault, k)
    /\ pc' = "print"
    /\ UNCHANGED <<logs, added>>

MainPrint ==
    /\ pc = "print"
    /\ last' = [NoCall EXCEPT !.op = "print_data", !.report = print_data(stock)]
    /\ pc' = "done"
    /\ UNCHANGED <<stock, logs, file, added>>

NextMain ==
    \/ MainLoad
    \/ MainAddApple
    \/ MainAddBanana
    \/ MainAddOrange
    \/ MainRemoveApple
    \/ MainRemovePear
    \/ MainGetQty
    \/ MainCheckLow
    \/ MainSave
    \/ MainPrint

SpecMain == InitMain /\ [][NextMain]_vars

----------------------------------------------------------------------------
(* Properties *)

Valid(c) == IsStr(c.item) /\ IsInt(c.qty)

Positive(d) == \A i \in 1..Len(d) : d[i].qty > 0

\* every quantity in the file's text is greater than 0
WrittenPositive(f) == \A i \in 1..Len(f.text) : f.text[i].t = "num" => f.text[i].n > 0

\* the step wrote to the file
Wrote == last'.op = "save_data" /\ last'.fault # "open"

\* the step is an add_item of a quantity greater than 0
PositiveAdd ==
    /\ last'.op = "add_item"
    /\ \E item \in TextArgs, qty \in IntArgs :
          qty.n > 0 /\ stock' = add_item(stock, item, qty, logs, FALSE).stock

\* C1 as stated: from an inventory whose entries are all greater than 0, every
\* add_item, remove_item and save_data call with a text item and an integer
\* quantity leaves every entry of the mapping greater than 0, and save_data
\* writes only entries greater than 0.
C1_NeverNonPositive ==
    [][(Positive(stock) /\ last'.op \in {"add_item", "remove_item", "save_data"})
         => (Positive(stock') /\ (Wrote => WrittenPositive(file')))]_vars

\* C1 as amended: the same, for remove_item and save_data calls and for add_item
\* calls whose quantity is greater than 0.
C1_PositiveKept ==
    [][(Positive(stock) /\ (PositiveAdd \/ last'.op \in {"remove_item", "save_data"}))
         => (Positive(stock') /\ (Wrote => WrittenPositive(file')))]_vars

\* an inventory of two entries, both greater than 0, has just been saved
C1_Witness ==
    /\ last.op = "save_data"
    /\ last.out = "Inventory data saved"
    /\ Len(stock) = 2
    /\ Positive(stock)
    /\ file = TextFile(json_dump(stock))

\* C2: while nothing but add_item has touched an item since it was absent,
\* get_qty of the item is the sum of the quantities added to it.
C2_SumOfAdds ==
    \A i \in TextItems : added[i].ok => get_qty(stock, i) = added[i].sum

\* the second add of a run has just returned, and the first still counts
C2_Witness ==
    /\ last.op = "add_item"
    /\ \E i \in TextItems :
          /\ last.item = PyStr(i)
          /\ added[i].ok
          /\ added[i].n >= 2
          /\ added[i].sum # last.qty.n

\* C3: remove_item with a text item and an integer qty that is at least
\* get_qty(item) leaves get_qty(item) = 0 and the item out of the key set.
C3_RemoveAtLeastAll ==
    [][(/\ last'.op = "remove_item"
        /\ Valid(last')
        /\ last'.qty.n >= get_qty(stock, last'.item.s))
         => (/\ get_qty(stock', last'.item.s) = 0
             /\ last'.item.s \notin Keys(stock'))]_vars

\* a present item has just been removed whole, another item staying
C3_Witness ==
    /\ last.op = "remove_item"
    /\ Valid(last)
    /\ last.out = ""
    /\ last.item.s \notin Keys(stock)
    /\ stock # <<>>

\* C4: remove_item of a text item that is not in the mapping, with any integer
\* qty, leaves the mapping as it was, prints the warning and does not raise.
C4_RemoveAbsent ==
    [][(/\ last'.op = "remove_item"
        /\ Valid(last')
        /\ last'.item.s \notin Keys(stock))
         => (/\ stock' = stock
             /\ last'.out = "Warning: does not exist"
             /\ ~last'.raised)]_vars

\* an absent item has just been removed with a negative quantity
C4_Witness ==
    /\ last.op = "remove_item"
    /\ last.out = "Warning: does not exist"
    /\ last.qty.n < 0
    /\ stock # <<>>

\* C5: add_item and remove_item with an item that is not a str or a quantity
\* that is not an int leave the mapping and the log list as they were, print
\* the error and do not raise.
C5_InvalidArguments ==
    [][(last'.op \in {"add_item", "remove_item"} /\ ~Valid(last'))
         => (/\ stock' = stock
             /\ logs' = logs
             /\ last'.out = "Invalid item or quantity"
             /\ ~last'.raised)]_vars

\* an add_item with a bad argument was handed a log list that holds a record
C5_Witness ==
    /\ last.op = "add_item"
    /\ ~Valid(last)
    /\ last.useLogs
    /\ Len(logs) > 0
    /\ stock # <<>>

\* r lists exactly the items of d below the threshold, once each, in d's order
IsLowList(r, d, threshold) ==
    /\ \A j \in 1..Len(r) : r[j] \in Keys(d) /\ DictGet(d, r[j], 0) < threshold
    /\ \A x \in Keys(d) : DictGet(d, x, 0) < threshold => \E j \in 1..Len(r) : r[j] = x
    /\ \A j, k \in 1..Len(r) :
          j < k => r[j] # r[k] /\ IndexOf(d, r[j]) < IndexOf(d, r[k])

ExampleStock ==
    <<[item |-> "apple", qty |-> 10], [item |-> "banana", qty |-> 2],
      [item |-> "orange", qty |-> 0]>>

\* C6: check_low_items returns exactly the items whose quantity is below the
\* threshold, once each, in the order of insertion, and leaves the mapping as
\* it was; for {apple: 10, banana: 2, orange: 0} and the default threshold it
\* returns [banana, orange].
C6_LowItems ==
    [][last'.op = "check_low_items"
         => (/\ IsLowList(last'.ret_items, stock, last'.threshold)
             /\ stock' = stock
             /\ check_low_items(ExampleStock, DefaultThreshold) = <<"banana", "orange">>)]_vars

\* with the default threshold both items are listed, the later-named one first
C6_Witness ==
    /\ last.op = "check_low_items"
    /\ last.threshold = DefaultThreshold
    /\ last.ret_items = <<"banana", "apple">>

C8_LoadFallsBackToEmpty ==
    [][(/\ last'.op = "load_data"
        /\ \/ ~file.exists
           \/ last'.fault = "none" /\ ~json_load(file.text).ok)
         => (/\ ~last'.raised
             /\ stock' = <<>>
             /\ file' = file)]_vars

\* a file that a failed write cut short has been loaded
C8_Witness ==
    /\ last.op = "load_data"
    /\ last.out = "Error reading JSON file"
    /\ Len(file.text) > 4
    /\ stock = <<>>

\* main loaded an empty mapping (the file is as it was until main saves)
StartedEmpty == load_data(file, "none").data = <<>>

\* C9: when main starts from an empty mapping, after its adds and removes
\* get_qty(apple) = 7, get_qty(banana) = 2, get_qty(orange) = 0, pear is not in
\* the mapping and check_low_items() has returned [banana, orange].
C9_MainScenario ==
    (pc = "save" /\ StartedEmpty)
        => (/\ get_qty(stock, "apple") = 7
            /\ get_qty(stock, "banana") = 2
            /\ get_qty(stock, "orange") = 0
            /\ "pear" \notin Keys(stock)
            /\ last.op = "check_low_items"
            /\ last.ret_items = <<"banana", "orange">>)

\* main has reached its save from a file that does not exist
C9_Witness ==
    /\ pc = "save"
    /\ ~file.exists
    /\ last.op = "check_low_items"

\* C10: remove_item of a present item, with an integer qty that leaves more
\* than 0, keeps the item with the quantity less qty; and any remove_item leaves
\* every other item as it was and adds no key.
C10_RemoveFrame ==
    [][last'.op = "remove_item"
         => (/\ (/\ Valid(last')
                 /\ last'.item.s \in Keys(stock)
                 /\ get_qty(stock, last'.item.s) - last'.qty.n > 0)
                  => (/\ last'.item.s \in Keys(stock')
                      /\ get_qty(stock', last'.item.s)
                           = get_qty(stock, last'.item.s) - last'.qty.n)
             /\ \A x \in Keys(stock) \cup Keys(stock') :
                    (~Valid(last') \/ x # last'.item.s)
                      => (/\ x \in Keys(stock)
                          /\ x \in Keys(stock')
                          /\ get_qty(stock', x) = get_qty(stock, x))
             /\ Keys(stock') \subseteq Keys(stock))]_vars

\* part of a present item has just been removed, another item standing by
C10_Witness ==
    /\ last.op = "remove_item"
    /\ Valid(last)
    /\ last.qty.n > 0
    /\ last.item.s \in Keys(stock)
    /\ Len(stock) = 2

====
